---- MODULE Spec2Model ----
(***************************************************************************)
(* Model of the browser-side controller ARQV30App (src/static/js/main.js): *)
(* session identity, form collection and validation, the analysis request, *)
(* the loading progress timers, results rendering, the upload list, PDF    *)
(* download and the one-shot status check.                                 *)
(*                                                                         *)
(* A JavaScript string is a tuple of one-character strings, so that        *)
(* parseFloat, template interpolation and concatenation are computed.      *)
(* A JavaScript value is a tagged record; strict equality (===) is         *)
(* equality of tagged records.  A handler runs to its first await in one   *)
(* step; each await of a network call is a pending entry of reqs, resumed  *)
(* by a later step.                                                        *)
(***************************************************************************)
EXTENDS Integers, Sequences, FiniteSets, TLC

VARIABLES now, sessionId, uploadedFiles, fileButtons, currentAnalysis,
          resultsContent, resultsShown, overlay, statusIndicator, reqs, last,
          progress, timers, analysisFrom

vars == <<now, sessionId, uploadedFiles, fileButtons, currentAnalysis,
          resultsContent, resultsShown, overlay, statusIndicator, reqs, last,
          progress, timers, analysisFrom>>

\* the progress display and the pending updateProgress timers
loading == <<progress, timers>>

(***************************************************************************)
(* Bounds                                                                  *)
(***************************************************************************)
\* Date.now() ranges over 0..MaxClock
MaxClock == 1
\* requests issued (or reserved by a batch being processed) in one run
MaxReq == 3
\* files in one file-select or drop event
MaxBatch == 2
\* entries of an insights list
MaxInsights == 4

(***************************************************************************)
(* JavaScript values                                                       *)
(***************************************************************************)
Null == [t |-> "null"]
Undefined == [t |-> "undefined"]
NaN == [t |-> "NaN"]
Str(s) == [t |-> "string", s |-> s]
Num(n) == [t |-> "number", n |-> n]
Obj(o) == [t |-> "object", o |-> o]
Arr(a) == [t |-> "array", a |-> a]
Bool(b) == [t |-> "boolean", b |-> b]

EmptyObj == [k \in {} |-> Null]

\* ToBoolean, as used by `x ? a : b`, `!x` and `x || y`
Truthy(v) ==
    CASE v.t = "null" -> FALSE
      [] v.t = "undefined" -> FALSE
      [] v.t = "NaN" -> FALSE
      [] v.t = "string" -> v.s # <<>>
      [] v.t = "number" -> v.n # 0
      [] v.t = "boolean" -> v.b
      [] OTHER -> TRUE

\* x || y
Or(x, y) == IF Truthy(x) THEN x ELSE y

\* obj.key on an object value; a missing key reads as undefined
Get(v, k) == IF v.t = "object" /\ k \in DOMAIN v.o THEN v.o[k] ELSE Undefined

\* obj.key throws a TypeError when obj is null or undefined
PropertyReadThrows(v) == v.t \in {"null", "undefined"}

IsDigit(c) == c \in {"0", "1", "2", "3", "4", "5", "6", "7", "8", "9"}

DigitVal(c) ==
    CASE c = "0" -> 0 [] c = "1" -> 1 [] c = "2" -> 2 [] c = "3" -> 3
      [] c = "4" -> 4 [] c = "5" -> 5 [] c = "6" -> 6 [] c = "7" -> 7
      [] c = "8" -> 8 [] c = "9" -> 9

DigitChar(d) ==
    CASE d = 0 -> "0" [] d = 1 -> "1" [] d = 2 -> "2" [] d = 3 -> "3"
      [] d = 4 -> "4" [] d = 5 -> "5" [] d = 6 -> "6" [] d = 7 -> "7"
      [] d = 8 -> "8" [] d = 9 -> "9"

\* String(n) for a non-negative integer n
RECURSIVE Digits(_)
Digits(n) == IF n < 10 THEN <<DigitChar(n)>>
             ELSE Append(Digits(n \div 10), DigitChar(n % 10))

\* the longest prefix of s made of digits
RECURSIVE DigitPrefix(_)
DigitPrefix(s) == IF s = <<>> \/ ~IsDigit(Head(s)) THEN <<>>
                  ELSE <<Head(s)>> \o DigitPrefix(Tail(s))

RECURSIVE DigitsValue(_, _)
DigitsValue(s, acc) == IF s = <<>> THEN acc
                       ELSE DigitsValue(Tail(s), acc * 10 + DigitVal(Head(s)))

\* parseFloat(s) on strings over digits and letters (no sign, point, exponent
\* or blanks in the alphabet): the number the longest digit prefix spells, NaN
\* when that prefix is empty
parseFloat(s) == LET p == DigitPrefix(s)
                 IN IF p = <<>> THEN NaN ELSE Num(DigitsValue(p, 0))

\* `${v}` for a string, a non-negative integer, undefined or null
TemplateString(v) ==
    CASE v.t = "string" -> v.s
      [] v.t = "number" -> Digits(v.n)
      [] v.t = "undefined" -> <<"u", "n", "d", "e", "f", "i", "n", "e", "d">>
      [] v.t = "null" -> <<"n", "u", "l", "l">>

(***************************************************************************)
(* Session identity                                                        *)
(***************************************************************************)
\* Math.random().toString(36).substr(2, 9)
RandomSuffixes == {<<"a">>, <<"b">>}

\* mutant: the random suffix is lost
generateSessionId_noSuffix(t, r) == <<"s", "_">> \o Digits(t) \o <<"_">>

\* 'session_' + Date.now() + '_' + suffix
generateSessionId(t, r) == <<"s", "_">> \o Digits(t) \o <<"_">> \o r

(***************************************************************************)
(* Form collection and validation                                          *)
(***************************************************************************)
TextFields == {"segmento", "produto", "publico", "prazo_lancamento",
               "concorrentes", "query", "dados_adicionais"}
NumericFields == {"preco", "objetivo_receita", "orcamento_marketing"}
FormFields == TextFields \cup NumericFields
DataKeys == {"session_id"} \cup FormFields

\* FormData.get(name): null when the form has no such control, else a string
TextInputs == {Null, Str(<<>>), Str(<<"x">>)}
NumericInputs == {Null, Str(<<>>), Str(<<"0">>), Str(<<"a">>),
                  Str(<<"7", "a">>)}

\* the object literal of collectFormData, before empty values are removed
collectRaw(form, sid) ==
    [k \in DataKeys |->
        IF k = "session_id" THEN Str(sid)
        ELSE IF k \in NumericFields
             THEN IF Truthy(form[k]) THEN parseFloat(form[k].s) ELSE Null
             ELSE form[k]]

\* mutant: every falsy value is removed
IsRemoved_falsy(v) == ~Truthy(v)

\* the `Remove empty values` loop: delete data[key] when it is '' or null
IsRemoved(v) == v = Str(<<>>) \/ v = Null

collectFormData(form, sid) ==
    LET data == collectRaw(form, sid)
    IN [k \in {x \in DataKeys : ~IsRemoved(data[x])} |-> data[k]]

\* JSON.stringify of a flat object: NaN is written as null
JSONStringify(data) ==
    [k \in DOMAIN data |-> IF data[k] = NaN THEN Null ELSE data[k]]

(***************************************************************************)
(* Notifications: showError / showSuccess.  A notification is its kind,    *)
(* the fixed text of the call site and the interpolated part: whose text   *)
(* it is (src) and, for a server-supplied text, the text (msg).            *)
(***************************************************************************)
Note(type, text, src, msg) ==
    [type |-> type, text |-> text, src |-> src, msg |-> msg]
showError(text, src, msg) == Note("error", text, src, msg)
showSuccess(text, src, msg) == Note("success", text, src, msg)
\* a notification whose text also interpolates a file name
Named(note, name) == [note EXCEPT !.text = <<note.text, name>>]

\* mutant: the segment is not required
validateFormData_skip(data) == [ok |-> TRUE, notes |-> <<>>]

validateFormData(data) ==
    IF ~Truthy(Get(Obj(data), "segmento"))
    THEN [ok |-> FALSE,
          notes |-> <<showError("O campo Segmento de Mercado e obrigatorio",
                                "fixed", <<>>)>>]
    ELSE [ok |-> TRUE, notes |-> <<>>]

(***************************************************************************)
(* Requests in flight.  reqs[i] is the i-th request the controller issued; *)
(* a resolved one is replaced by Done.  sentUnder records the controller's *)
(* sessionId when the request was sent; file and rest are the locals of    *)
(* the uploadFile / processFiles call awaiting the request.                *)
(***************************************************************************)
NoFile == [name |-> <<>>, size |-> 0]
Files == {[name |-> <<"a">>, size |-> 2048], [name |-> <<"b">>, size |-> 0]}

NoBody == [kind |-> "none", value |-> Undefined]
JsonBody(v) == [kind |-> "json", value |-> v]
FormDataBody(o) == [kind |-> "formdata", value |-> Obj(o)]

Request(url, body, sid, file, rest) ==
    [url |-> url, pending |-> TRUE, body |-> body, sentUnder |-> sid,
     file |-> file, rest |-> rest]
Done == [url |-> "", pending |-> FALSE, body |-> NoBody, sentUnder |-> <<>>,
         file |-> NoFile, rest |-> <<>>]

Pending(url) == {i \in DOMAIN reqs : reqs[i].pending /\ reqs[i].url = url}

\* the session id a request carries: <<id>>, or <<>> when it carries none
CarriedSession(r) ==
    LET v == Get(r.body.value, "session_id")
    IN IF v.t = "string" THEN <<v.s>> ELSE <<>>

RECURSIVE SumRest(_)
SumRest(S) == IF S = {} THEN 0
              ELSE LET i == CHOOSE x \in S : TRUE
                   IN Len(reqs[i].rest) + SumRest(S \ {i})

\* requests issued so far plus those the batches in progress will still issue
Committed == Len(reqs) + SumRest(Pending("/api/upload_attachment"))

(***************************************************************************)
(* Responses: a fetch that rejects, or a response with its ok flag and a   *)
(* body that response.json() parses (json) or rejects.                     *)
(***************************************************************************)
NetworkFailure == [fetch |-> "rejected", ok |-> FALSE, parsed |-> FALSE,
                   json |-> Undefined]
Http(ok, parsed, json) == [fetch |-> "resolved", ok |-> ok, parsed |-> parsed,
                           json |-> json]

ErrorBodies == {Null, Obj(EmptyObj), Obj("message" :> Str(<<"m">>))}
Payloads == {Null, Obj(EmptyObj),
             Obj("insights_exclusivos" :> Arr(<<Str(<<"A">>), Str(<<"B">>)>>)),
             Obj("insights_exclusivos" :> Str(<<"x">>))}

AnalyzeResponses ==
    {NetworkFailure, Http(FALSE, FALSE, Undefined), Http(TRUE, FALSE, Undefined)}
    \cup {Http(FALSE, TRUE, b) : b \in ErrorBodies}
    \cup {Http(TRUE, TRUE, p) : p \in Payloads}

(***************************************************************************)
(* Results rendering.  The HTML fragment is the sequence of its sections;  *)
(* an insights section holds its cards.                                    *)
(***************************************************************************)
Section(name, cards) == [section |-> name, cards |-> cards]

\* mutant: the cards carry the 0-based index
buildInsightsSection_zeroBased(insights) ==
    IF insights.t # "array" THEN [threw |-> TRUE, html |-> <<>>]
    ELSE [threw |-> FALSE,
          html |-> <<Section("insights",
                       [i \in 1..Len(insights.a) |->
                           [number |-> i - 1, content |-> insights.a[i]]])>>]

\* insights.map((insight, index) => card): a TypeError unless insights is a list
buildInsightsSection(insights) ==
    IF insights.t # "array" THEN [threw |-> TRUE, html |-> <<>>]
    ELSE [threw |-> FALSE,
          html |-> <<Section("insights",
                       [i \in 1..Len(insights.a) |->
                           [number |-> (i - 1) + 1, content |-> insights.a[i]]])>>]

\* the sections buildResultsHTML tests, in its order
SectionKeys == <<"avatar_ultra_detalhado", "escopo",
                 "analise_concorrencia_detalhada", "estrategia_palavras_chave",
                 "metricas_performance_detalhadas", "projecoes_cenarios",
                 "plano_acao_detalhado", "insights_exclusivos">>

buildSection(key, value) ==
    IF key = "insights_exclusivos" THEN buildInsightsSection(value)
    ELSE [threw |-> FALSE, html |-> <<Section(key, <<>>)>>]

RECURSIVE buildFrom(_, _)
buildFrom(result, i) ==
    IF i > Len(SectionKeys) THEN [threw |-> FALSE, html |-> <<>>]
    ELSE LET v == Get(result, SectionKeys[i])
             rest == buildFrom(result, i + 1)
         IN IF ~Truthy(v) THEN rest
            ELSE LET s == buildSection(SectionKeys[i], v)
                 IN IF s.threw \/ rest.threw THEN [threw |-> TRUE, html |-> <<>>]
                    ELSE [threw |-> FALSE, html |-> s.html \o rest.html]

buildResultsHTML(result) ==
    IF PropertyReadThrows(result) THEN [threw |-> TRUE, html |-> <<>>]
    ELSE buildFrom(result, 1)

\* displayResults: clear the content, build, then fill and show the section
displayResults(result, content, shown) ==
    LET b == buildResultsHTML(result)
    IN IF b.threw THEN [threw |-> TRUE, content |-> <<>>, shown |-> shown]
       ELSE [threw |-> FALSE, content |-> b.html, shown |-> TRUE]

(***************************************************************************)
(* The last handler step: which handler ran (op), how it ended (outcome),  *)
(* what it notified (notes), and what the properties refer to: the form    *)
(* submitted and the data collected from it, the response an analysis call *)
(* resumed with, the request (rid) or remove button (idx) concerned, the   *)
(* upload list before an upload or a removal, and for startNewAnalysis the *)
(* session id it replaced, the clock and suffix it drew and whether the    *)
(* step before was a startNewAnalysis too (calls = 2).                     *)
(* analysisFrom is the request whose response currentAnalysis was taken    *)
(* from (0: none).                                                         *)
(***************************************************************************)
Event(op, outcome, notes) ==
    [op |-> op, outcome |-> outcome, notes |-> notes, form |-> EmptyObj,
     data |-> EmptyObj, resp |-> NetworkFailure, rid |-> 0, idx |-> 0,
     before |-> <<>>, prevSession |-> <<>>, drawn |-> <<>>, calls |-> 0]

(***************************************************************************)
(* showLoading / startLoadingProgress.  progress is what the progress bar  *)
(* and the caption show.  Every startLoadingProgress call has its own      *)
(* currentStep; a pending setTimeout(updateProgress, 2000) is an entry of  *)
(* timers holding the currentStep of its call.  All timers have the same   *)
(* delay, so they fire in the order they were set: timers is a queue.      *)
(***************************************************************************)
steps == <<[progress |-> 10, text |-> "Validando dados..."],
           [progress |-> 25, text |-> "Processando anexos..."],
           [progress |-> 40, text |-> "Realizando pesquisa profunda..."],
           [progress |-> 60, text |-> "Analisando com IA..."],
           [progress |-> 80, text |-> "Gerando insights..."],
           [progress |-> 95, text |-> "Finalizando analise..."],
           [progress |-> 100, text |-> "Analise concluida!"]>>

\* the display before the first submission
NoProgress == [progress |-> 0, text |-> ""]

\* startLoadingProgress: the first updateProgress call runs at once
startLoadingProgress(queue) ==
    [progress |-> steps[1], timers |-> Append(queue, 1)]

\* a timer fires: updateProgress shows the next step of its call and sets the
\* next timer, or finds all steps shown and sets none
updateProgress ==
    /\ timers # <<>>
    /\ LET currentStep == Head(timers)
       IN IF currentStep < Len(steps)
          THEN /\ progress' = steps[currentStep + 1]
               /\ timers' = Append(Tail(timers), currentStep + 1)
          ELSE /\ progress' = progress
               /\ timers' = Tail(timers)
    /\ last' = Event("updateProgress", "done", <<>>)
    /\ UNCHANGED <<now, sessionId, uploadedFiles, fileButtons, currentAnalysis,
                   resultsContent, resultsShown, overlay, statusIndicator, reqs,
                   analysisFrom>>

(***************************************************************************)
(* handleFormSubmit, and performAnalysis up to its await of fetch          *)
(***************************************************************************)
handleFormSubmit(form) ==
    LET formData == collectFormData(form, sessionId)
        v == validateFormData(formData)
    IN IF ~v.ok
          THEN /\ last' = [Event("handleFormSubmit", "invalid", v.notes)
                             EXCEPT !.form = form, !.data = formData]
               /\ UNCHANGED <<now, sessionId, uploadedFiles, fileButtons,
                              currentAnalysis, resultsContent, resultsShown,
                              overlay, statusIndicator, reqs, loading,
                              analysisFrom>>
          ELSE /\ Committed < MaxReq
               /\ overlay' = TRUE
               /\ progress' = startLoadingProgress(timers).progress
               /\ timers' = startLoadingProgress(timers).timers
               /\ reqs' = Append(reqs,
                     Request("/api/analyze", JsonBody(Obj(JSONStringify(formData))),
                             sessionId, NoFile, <<>>))
               /\ last' = [Event("handleFormSubmit", "sent", <<>>)
                             EXCEPT !.form = form, !.data = formData,
                                    !.rid = Len(reqs) + 1]
               /\ UNCHANGED <<now, sessionId, uploadedFiles, fileButtons,
                              currentAnalysis, resultsContent, resultsShown,
                              statusIndicator, analysisFrom>>

(***************************************************************************)
(* performAnalysis from the resolution of its fetch to its end.  The two   *)
(* awaits (fetch, then response.json()) are one step: the call reads and   *)
(* writes nothing of the controller between them.                          *)
(***************************************************************************)
\* mutant: the catch block does not hide the overlay
analysisCaught_overlayStays(ca, content, shown, outcome, src, msg) ==
    [currentAnalysis |-> ca, resultsContent |-> content, resultsShown |-> shown,
     overlay |-> TRUE, outcome |-> outcome,
     notes |-> <<showError("Erro ao realizar analise", src, msg)>>]

\* the catch block: hideLoading, then one error notification
analysisCaught(ca, content, shown, outcome, src, msg) ==
    [currentAnalysis |-> ca, resultsContent |-> content, resultsShown |-> shown,
     overlay |-> FALSE, outcome |-> outcome,
     notes |-> <<showError("Erro ao realizar analise", src, msg)>>]

performAnalysisResume(resp, ca, content, shown) ==
    IF resp.fetch = "rejected"
    THEN analysisCaught(ca, content, shown, "fetchRejected", "exception", <<>>)
    ELSE IF ~resp.ok
    THEN IF ~resp.parsed \/ PropertyReadThrows(resp.json)
         THEN analysisCaught(ca, content, shown, "httpErrorNoBody", "exception", <<>>)
         ELSE LET m == Get(resp.json, "message")
              IN IF Truthy(m)
                 THEN analysisCaught(ca, content, shown, "httpError", "body", m.s)
                 ELSE analysisCaught(ca, content, shown, "httpError", "default", <<>>)
    ELSE IF ~resp.parsed
    THEN analysisCaught(ca, content, shown, "okUnparsed", "exception", <<>>)
    ELSE LET d == displayResults(resp.json, content, shown)
         IN IF d.threw
            THEN analysisCaught(resp.json, d.content, d.shown, "displayThrew",
                                "exception", <<>>)
            ELSE [currentAnalysis |-> resp.json, resultsContent |-> d.content,
                  resultsShown |-> d.shown, overlay |-> FALSE,
                  outcome |-> "displayed", notes |-> <<>>]

\* the call reaches `this.currentAnalysis = result`
assignsAnalysis(resp) == resp.fetch = "resolved" /\ resp.ok /\ resp.parsed

AnalyzeResolve(i, resp) ==
    /\ i \in Pending("/api/analyze")
    /\ LET r == performAnalysisResume(resp, currentAnalysis, resultsContent,
                                      resultsShown)
       IN /\ currentAnalysis' = r.currentAnalysis
          /\ resultsContent' = r.resultsContent
          /\ resultsShown' = r.resultsShown
          /\ overlay' = r.overlay
          /\ last' = [Event("performAnalysis", r.outcome, r.notes)
                        EXCEPT !.rid = i, !.resp = resp]
    /\ analysisFrom' = IF assignsAnalysis(resp) THEN i ELSE analysisFrom
    /\ reqs' = [reqs EXCEPT ![i] = Done]
    /\ UNCHANGED <<now, sessionId, uploadedFiles, fileButtons, statusIndicator,
                   loading>>

(***************************************************************************)
(* downloadPDF                                                             *)
(***************************************************************************)
\* mutant: downloadPDF does not test currentAnalysis
hasAnalysis_always(ca) == TRUE

\* the guard of downloadPDF: `if (!this.currentAnalysis)`
hasAnalysis(ca) == Truthy(ca)

PdfResponses == {NetworkFailure, Http(FALSE, FALSE, Undefined),
                 Http(TRUE, TRUE, Undefined), Http(TRUE, FALSE, Undefined)}

downloadPDF ==
    /\ IF ~hasAnalysis(currentAnalysis)
       THEN /\ last' = Event("downloadPDF", "noAnalysis",
                   <<showError("Nenhuma analise disponivel para download",
                               "fixed", <<>>)>>)
            /\ UNCHANGED reqs
       ELSE /\ Committed < MaxReq
            /\ reqs' = Append(reqs,
                  Request("/api/generate_pdf", JsonBody(currentAnalysis),
                          sessionId, NoFile, <<>>))
            /\ last' = [Event("downloadPDF", "sent", <<>>)
                          EXCEPT !.rid = Len(reqs) + 1]
    /\ UNCHANGED <<now, sessionId, uploadedFiles, fileButtons, currentAnalysis,
                   resultsContent, resultsShown, overlay, statusIndicator,
                   loading, analysisFrom>>

\* resp.parsed stands for response.blob() resolving
PdfResolve(i, resp) ==
    /\ i \in Pending("/api/generate_pdf")
    /\ reqs' = [reqs EXCEPT ![i] = Done]
    /\ last' = IF resp.fetch = "resolved" /\ resp.ok /\ resp.parsed
               THEN [Event("downloadPDFResume", "downloaded", <<>>)
                       EXCEPT !.rid = i]
               ELSE [Event("downloadPDFResume", "error",
                        <<showError("Erro ao gerar PDF",
                                    IF resp.fetch = "resolved" /\ ~resp.ok
                                    THEN "default" ELSE "exception", <<>>)>>)
                       EXCEPT !.rid = i]
    /\ UNCHANGED <<now, sessionId, uploadedFiles, fileButtons, currentAnalysis,
                   resultsContent, resultsShown, overlay, statusIndicator,
                   loading, analysisFrom>>

(***************************************************************************)
(* startNewAnalysis                                                        *)
(***************************************************************************)
\* `${file.id}` of every entry: the argument each remove button passes
updateUploadedFilesList(files) ==
    [i \in 1..Len(files) |-> TemplateString(files[i].id)]

startNewAnalysis(t, r) ==
    /\ now' = t
    /\ uploadedFiles' = <<>>
    /\ fileButtons' = updateUploadedFilesList(<<>>)
    /\ resultsShown' = FALSE
    /\ sessionId' = generateSessionId(t, r)
    /\ currentAnalysis' = Null
    /\ analysisFrom' = 0
    /\ last' = [Event("startNewAnalysis", "done", <<>>)
                  EXCEPT !.prevSession = sessionId, !.drawn = <<t, r>>,
                         !.calls = IF last.op = "startNewAnalysis" THEN 2 ELSE 1]
    /\ UNCHANGED <<resultsContent, overlay, statusIndicator, reqs, loading>>

(***************************************************************************)
(* File upload: handleFileSelect / handleFileDrop, processFiles, uploadFile *)
(***************************************************************************)
RECURSIVE SeqsUpTo(_, _)
SeqsUpTo(S, n) == IF n = 0 THEN {<<>>}
                  ELSE SeqsUpTo(S, n - 1) \cup [1..n -> S]

Batches == SeqsUpTo(Files, MaxBatch)

AttachmentIds == {Num(0), Num(1), Str(<<"1">>)}

UploadBodies ==
    {Null, Obj("success" :> Bool(FALSE)),
     Obj("success" :> Bool(TRUE) @@ "content_type" :> Str(<<"t">>))}
    \cup {Obj("success" :> Bool(TRUE) @@ "content_type" :> Str(<<"t">>)
              @@ "attachment_id" :> a) : a \in AttachmentIds}

\* uploadFile does not look at response.ok
UploadResponses ==
    {NetworkFailure, Http(TRUE, FALSE, Undefined),
     Http(FALSE, TRUE, Obj("success" :> Bool(FALSE) @@ "error" :> Str(<<"e">>)))}
    \cup {Http(TRUE, TRUE, b) : b \in UploadBodies}

\* mutant: the session id is not appended to the FormData
uploadFormData_noSession(file, sid) == "file" :> file

\* the FormData of uploadFile: the file and the session id
uploadFormData(file, sid) == "file" :> file @@ "session_id" :> Str(sid)

\* uploadFile up to its await of fetch; rest are the files processFiles has left
uploadRequest(file, rest, sid) ==
    Request("/api/upload_attachment", FormDataBody(uploadFormData(file, sid)),
            sid, file, rest)

\* mutant: no fallback to the timestamp when the server sends no id
descriptor_noFallback(file, result, t) ==
    [name |-> file.name, size |-> file.size,
     type |-> Get(result, "content_type"),
     id |-> Get(result, "attachment_id")]

\* the descriptor uploadFile pushes
descriptor(file, result, t) ==
    [name |-> file.name, size |-> file.size,
     type |-> Get(result, "content_type"),
     id |-> Or(Get(result, "attachment_id"), Num(t))]

\* mutant: the catch block of uploadFile only logs
uploadCaught_silent(files, file, src, msg) ==
    [files |-> files, outcome |-> "error", notes |-> <<>>]

uploadCaught(files, file, src, msg) ==
    [files |-> files, outcome |-> "error",
     notes |-> <<Named(showError("Erro ao processar", src, msg), file.name)>>]

\* mutant: the descriptor is put at the front of the list (unshift for push)
uploadFileResume_unshift(resp, file, files, t) ==
    IF resp.fetch = "rejected" \/ ~resp.parsed \/ PropertyReadThrows(resp.json)
    THEN uploadCaught(files, file, "exception", <<>>)
    ELSE IF Truthy(Get(resp.json, "success"))
    THEN [files |-> <<descriptor(file, resp.json, t)>> \o files,
          outcome |-> "appended",
          notes |-> <<Named(showSuccess("processado com sucesso", "fixed", <<>>),
                            file.name)>>]
    ELSE LET e == Get(resp.json, "error")
         IN IF Truthy(e) THEN uploadCaught(files, file, "body", e.s)
            ELSE uploadCaught(files, file, "default", <<>>)

\* uploadFile from the resolution of its fetch to its end, at time t
uploadFileResume(resp, file, files, t) ==
    IF resp.fetch = "rejected" \/ ~resp.parsed \/ PropertyReadThrows(resp.json)
    THEN uploadCaught(files, file, "exception", <<>>)
    ELSE IF Truthy(Get(resp.json, "success"))
    THEN [files |-> Append(files, descriptor(file, resp.json, t)),
          outcome |-> "appended",
          notes |-> <<Named(showSuccess("processado com sucesso", "fixed", <<>>),
                            file.name)>>]
    ELSE LET e == Get(resp.json, "error")
         IN IF Truthy(e) THEN uploadCaught(files, file, "body", e.s)
            ELSE uploadCaught(files, file, "default", <<>>)

\* processFiles(files) up to the first await: the first file's request is sent
processFiles(files, handler) ==
    /\ IF files = <<>>
       THEN /\ reqs' = reqs
            /\ last' = Event(handler, "empty", <<>>)
       ELSE /\ Committed + Len(files) <= MaxReq
            /\ reqs' = Append(reqs, uploadRequest(Head(files), Tail(files), sessionId))
            /\ last' = [Event(handler, "sent", <<>>) EXCEPT !.rid = Len(reqs) + 1]
    /\ UNCHANGED <<now, sessionId, uploadedFiles, fileButtons, currentAnalysis,
                   resultsContent, resultsShown, overlay, statusIndicator,
                   loading, analysisFrom>>

handleFileSelect(files) == processFiles(files, "handleFileSelect")

handleFileDrop(files) == processFiles(files, "handleFileDrop")

\* an upload resolves: uploadFile finishes and processFiles, awaiting it,
\* goes on to the next file of its batch in the same turn
UploadResolve(t, i, resp) ==
    /\ i \in Pending("/api/upload_attachment")
    /\ now' = t
    /\ LET r == uploadFileResume(resp, reqs[i].file, uploadedFiles, t)
           rest == reqs[i].rest
           done == [reqs EXCEPT ![i] = Done]
       IN /\ uploadedFiles' = r.files
          /\ fileButtons' = IF r.outcome = "appended"
                            THEN updateUploadedFilesList(r.files)
                            ELSE fileButtons
          /\ reqs' = IF rest = <<>> THEN done
                     ELSE Append(done, uploadRequest(Head(rest), Tail(rest), sessionId))
          /\ last' = [Event("uploadFile", r.outcome, r.notes)
                        EXCEPT !.rid = i, !.before = uploadedFiles]
    /\ UNCHANGED <<sessionId, currentAnalysis, resultsContent, resultsShown,
                   overlay, statusIndicator, loading, analysisFrom>>

\* removeFile(fileId): keep the entries whose id is not strictly equal to fileId
removeFile(fileId, files) == SelectSeq(files, LAMBDA f : f.id # Str(fileId))

\* a click on the i-th remove button: onclick="app.removeFile('<id>')"
RemoveClick(i) ==
    /\ i \in DOMAIN fileButtons
    /\ uploadedFiles' = removeFile(fileButtons[i], uploadedFiles)
    /\ fileButtons' = updateUploadedFilesList(uploadedFiles')
    /\ last' = [Event("removeFile", "done", <<>>)
                  EXCEPT !.idx = i, !.before = uploadedFiles]
    /\ UNCHANGED <<now, sessionId, currentAnalysis, resultsContent, resultsShown,
                   overlay, statusIndicator, reqs, loading, analysisFrom>>

(***************************************************************************)
(* checkAppStatus                                                          *)
(***************************************************************************)
Running == <<"r", "u", "n", "n", "i", "n", "g">>

StatusResponses ==
    {NetworkFailure, Http(TRUE, FALSE, Undefined),
     Http(TRUE, TRUE, Obj("status" :> Str(Running))),
     Http(FALSE, TRUE, Obj("status" :> Str(Running))),
     Http(TRUE, TRUE, Obj("status" :> Str(<<"d">>)))}

\* mutant: the response's ok flag is not looked at
checkAppStatusResume_ignoresOk(resp) ==
    IF resp.fetch = "rejected" \/ ~resp.parsed \/ PropertyReadThrows(resp.json)
    THEN "offline"
    ELSE IF Get(resp.json, "status") = Str(Running)
         THEN "online" ELSE "offline"

\* checkAppStatus from the resolution of its fetch: the indicator's class
checkAppStatusResume(resp) ==
    IF resp.fetch = "rejected" \/ ~resp.parsed \/ PropertyReadThrows(resp.json)
    THEN "offline"
    ELSE IF resp.ok /\ Get(resp.json, "status") = Str(Running)
         THEN "online" ELSE "offline"

StatusResolve(i, resp) ==
    /\ i \in Pending("/api/app_status")
    /\ statusIndicator' = checkAppStatusResume(resp)
    /\ reqs' = [reqs EXCEPT ![i] = Done]
    /\ last' = [Event("checkAppStatus", statusIndicator', <<>>)
                  EXCEPT !.rid = i]
    /\ UNCHANGED <<now, sessionId, uploadedFiles, fileButtons, currentAnalysis,
                   resultsContent, resultsShown, overlay, loading, analysisFrom>>

(***************************************************************************)
(* The controller after construction: the session id is generated, the     *)
(* upload list and the analysis are empty, and init() has sent the status  *)
(* request.                                                                *)
(***************************************************************************)
EmptyForm == [k \in FormFields |-> Str(<<>>)]
AbsentForm == [k \in FormFields |-> Null]

\* a form with only the segment filled
ValidForm == [EmptyForm EXCEPT !["segmento"] = Str(<<"x">>)]

\* the forms submitted in Spec
SampleForms ==
    {AbsentForm,
     [EmptyForm EXCEPT !["preco"] = Str(<<"a">>)],
     [EmptyForm EXCEPT !["segmento"] = Str(<<"x">>)],
     [EmptyForm EXCEPT !["segmento"] = Str(<<"x">>), !["preco"] = Str(<<"a">>),
                       !["produto"] = Str(<<"x">>)]}

Init ==
    /\ now = 0
    /\ sessionId = generateSessionId(0, <<"a">>)
    /\ uploadedFiles = <<>>
    /\ fileButtons = <<>>
    /\ currentAnalysis = Null
    /\ resultsContent = <<>>
    /\ resultsShown = FALSE
    /\ overlay = FALSE
    /\ statusIndicator = "loading"
    /\ reqs = <<Request("/api/app_status", NoBody, sessionId, NoFile, <<>>)>>
    /\ last = Event("constructor", "done", <<>>)
    /\ progress = NoProgress
    /\ timers = <<>>
    /\ analysisFrom = 0

\* Date.now() does not run backwards; the steps that read the clock
\* (startNewAnalysis, the end of uploadFile) say how far it has advanced
Next ==
    \/ \E form \in SampleForms : handleFormSubmit(form)
    \/ \E i \in DOMAIN reqs, resp \in AnalyzeResponses : AnalyzeResolve(i, resp)
    \/ downloadPDF
    \/ \E i \in DOMAIN reqs, resp \in PdfResponses : PdfResolve(i, resp)
    \/ \E t \in now..MaxClock, r \in RandomSuffixes : startNewAnalysis(t, r)
    \/ \E files \in Batches : handleFileSelect(files)
    \/ \E files \in Batches : handleFileDrop(files)
    \/ \E t \in now..MaxClock, i \in DOMAIN reqs, resp \in UploadResponses :
          UploadResolve(t, i, resp)
    \/ \E i \in DOMAIN fileButtons : RemoveClick(i)
    \/ \E i \in DOMAIN reqs, resp \in StatusResponses : StatusResolve(i, resp)

Spec == Init /\ [][Next]_vars

(***************************************************************************)
(* Form collection on every form: one submission of any combination of     *)
(* field values to the freshly constructed controller.                     *)
(***************************************************************************)
NextForm ==
    /\ last.op = "constructor"
    /\ \E a \in [TextFields -> TextInputs], b \in [NumericFields -> NumericInputs] :
          handleFormSubmit(a @@ b)

SpecForm == Init /\ [][NextForm]_vars

(***************************************************************************)
(* The loading progress: submissions, their responses and the timers of    *)
(* startLoadingProgress.  Spec leaves the timers pending: updateProgress   *)
(* writes the progress display only, which no handler reads.               *)
(***************************************************************************)
NextProgress ==
    \/ \E form \in SampleForms : handleFormSubmit(form)
    \/ \E i \in DOMAIN reqs, resp \in AnalyzeResponses : AnalyzeResolve(i, resp)
    \/ updateProgress

SpecProgress == Init /\ [][NextProgress]_vars

(***************************************************************************)
(* Rendering of insights: one submission answered by a result payload with *)
(* any insights list of up to MaxInsights entries, alone or after another  *)
(* section.                                                                *)
(***************************************************************************)
InsightTexts == {Str(<<"A">>), Str(<<"B">>), Str(<<"C">>)}

InsightPayloads ==
    {Obj("insights_exclusivos" :> Arr(l)) : l \in SeqsUpTo(InsightTexts, MaxInsights)}
    \cup {Obj("escopo" :> Obj(EmptyObj) @@ "insights_exclusivos" :> Arr(l)) :
             l \in SeqsUpTo(InsightTexts, MaxInsights)}

NextInsights ==
    \/ last.op = "constructor" /\ handleFormSubmit(ValidForm)
    \/ \E i \in DOMAIN reqs, p \in InsightPayloads :
          AnalyzeResolve(i, Http(TRUE, TRUE, p))

SpecInsights == Init /\ [][NextInsights]_vars

(***************************************************************************)
(* Properties                                                              *)
(***************************************************************************)
Range(f) == {f[i] : i \in DOMAIN f}

OneError(notes) == Len(notes) = 1 /\ notes[1].type = "error"

AnyPending == \E i \in DOMAIN reqs : reqs[i].pending

\* the requests a step has issued
Issued(old, new) == {i \in DOMAIN new : i > Len(old)}

\* the segment field of a form is unset (no value) or empty
SegmentMissing(form) ==
    form["segmento"] = Null \/ form["segmento"] = Str(<<>>)

\* C1: a form submission whose segment field is unset or empty issues no
\* request and shows one error notification; performAnalysis is not entered
\* (the overlay is not shown) and sessionId, uploadedFiles and currentAnalysis
\* keep their values.
C1_MissingSegmentAborts ==
    [][(last'.op = "handleFormSubmit" /\ SegmentMissing(last'.form)) =>
          /\ reqs' = reqs
          /\ OneError(last'.notes)
          /\ last'.outcome = "invalid"
          /\ overlay' = overlay
          /\ sessionId' = sessionId
          /\ uploadedFiles' = uploadedFiles
          /\ currentAnalysis' = currentAnalysis]_vars

\* an empty segment was submitted while a file and an analysis were held
C1_Witness ==
    /\ last.op = "handleFormSubmit"
    /\ last.form["segmento"] = Str(<<>>)
    /\ OneError(last.notes)
    /\ uploadedFiles # <<>>
    /\ currentAnalysis # Null

\* C2: while currentAnalysis is empty (null: never set, or cleared by
\* startNewAnalysis) downloadPDF shows one error notification and issues no
\* request, and no step issues a request to /api/generate_pdf from a state
\* whose currentAnalysis is empty.
C2_NoPdfWithoutAnalysis ==
    [][/\ (last'.op = "downloadPDF" /\ currentAnalysis = Null) =>
             (reqs' = reqs /\ OneError(last'.notes))
       /\ \A i \in Issued(reqs, reqs') :
             reqs'[i].url = "/api/generate_pdf" => currentAnalysis # Null]_vars

\* downloadPDF was refused after startNewAnalysis had cleared an analysis whose
\* rendering is still in the (hidden) results block
C2_Witness ==
    /\ last.op = "downloadPDF"
    /\ last.outcome = "noAnalysis"
    /\ currentAnalysis = Null
    /\ resultsContent # <<>>
    /\ ~resultsShown

\* a numeric field holds a non-empty string that does not parse as a number
Unparsable(v) == v.t = "string" /\ v.s # <<>> /\ parseFloat(v.s) = NaN

\* C3: for every numeric field whose input is a non-empty string that does not
\* parse as a number, the object collectFormData returns and the JSON body
\* sent to /api/analyze have no key for that field.
C3_UnparsableNumberOmitted ==
    last.op = "handleFormSubmit" =>
        \A k \in NumericFields :
            Unparsable(last.form[k]) =>
                /\ k \notin DOMAIN last.data
                /\ last.outcome = "sent" =>
                       k \notin DOMAIN reqs[last.rid].body.value.o

\* the form fields that hold a non-empty value
Filled(form) == {k \in FormFields : form[k].t = "string" /\ form[k].s # <<>>}

\* C4: for every combination of form field values the object collectFormData
\* builds has the key session_id and exactly the keys of the fields whose
\* value is present and non-empty; a form with only segmento filled yields
\* exactly session_id and segmento.
C4_CollectedKeys ==
    last.op = "handleFormSubmit" =>
        /\ DOMAIN last.data = {"session_id"} \cup Filled(last.form)
        /\ last.data["session_id"] = Str(sessionId)

\* only segmento was filled, and the data has the two keys
C4_Witness ==
    /\ last.op = "handleFormSubmit"
    /\ Filled(last.form) = {"segmento"}
    /\ DOMAIN last.data = {"session_id", "segmento"}

\* C5: an upload that succeeds followed by a click on the remove button of the
\* uploaded file (the last of the list) leaves uploadedFiles with the set of
\* entries it held before the upload.
C5_UploadRemoveRoundTrip ==
    [][(/\ last.op = "uploadFile"
        /\ last.outcome = "appended"
        /\ last'.op = "removeFile"
        /\ last'.idx = Len(uploadedFiles)) =>
          Range(uploadedFiles') = Range(last.before)]_vars

\* results hidden, upload list empty, no analysis
EmptyState == ~resultsShown /\ uploadedFiles = <<>> /\ currentAnalysis = Null

\* C6 as claimed: with no request in flight, a second startNewAnalysis in a
\* row leaves the empty state of the first, and each of the two calls installs
\* a session id that differs from the one before it, so that the two new ids
\* and the original are three distinct ids.
C6_TwoCallsDistinctIds ==
    [][(last'.op = "startNewAnalysis" /\ last'.calls = 2 /\ ~AnyPending) =>
          /\ EmptyState /\ EmptyState'
          /\ sessionId' # sessionId
          /\ sessionId # last.prevSession
          /\ sessionId' # last.prevSession]_vars

\* C6 amended: with no request in flight, a second startNewAnalysis in a row
\* leaves the empty state of the first, and each call installs a newly
\* generated id; the second id differs from the first exactly when the clock
\* value or the random suffix it was generated from differs.
C6_TwoCallsFreshIds ==
    [][(last'.op = "startNewAnalysis" /\ last'.calls = 2 /\ ~AnyPending) =>
          /\ EmptyState /\ EmptyState'
          /\ resultsContent' = resultsContent
          /\ last'.prevSession = sessionId
          /\ (sessionId' # sessionId) <=> (last'.drawn # last.drawn)]_vars

\* startNewAnalysis ran twice in a row, with no request in flight, after an
\* analysis had been displayed, and installed an id other than the first's
C6_Witness ==
    /\ last.op = "startNewAnalysis"
    /\ last.calls = 2
    /\ ~AnyPending
    /\ resultsContent # <<>>
    /\ EmptyState
    /\ sessionId # last.prevSession

\* C7 as claimed: every request in flight carries the session id the
\* controller had when the request was sent.
C7_EveryRequestCarriesSession ==
    \A i \in DOMAIN reqs :
        reqs[i].pending => CarriedSession(reqs[i]) = <<reqs[i].sentUnder>>

SessionEndpoints == {"/api/analyze", "/api/upload_attachment"}

CarriesAsSent(r, sid) ==
    IF r.url \in SessionEndpoints THEN CarriedSession(r) = <<sid>>
    ELSE CarriedSession(r) = <<>>

\* C7 amended: every request to /api/analyze and /api/upload_attachment
\* carries the session id the controller has when the request is sent;
\* the requests to /api/app_status and /api/generate_pdf carry none.
C7_SessionOnAnalyzeAndUpload ==
    /\ \A i \in DOMAIN reqs : CarriesAsSent(reqs[i], sessionId)
    /\ [][\A i \in Issued(reqs, reqs') :
             sessionId' = sessionId /\ CarriesAsSent(reqs'[i], sessionId)]_vars

\* after the session id was rotated, an analysis request and an upload are in
\* flight, both carrying the new id
C7_Witness ==
    /\ sessionId # generateSessionId(0, <<"a">>)
    /\ \E i \in Pending("/api/analyze") : CarriedSession(reqs[i]) = <<sessionId>>
    /\ \E i \in Pending("/api/upload_attachment") :
          CarriedSession(reqs[i]) = <<sessionId>>

\* C8: at most one request to /api/upload_attachment is in flight.
C8_UploadsSerialized == Cardinality(Pending("/api/upload_attachment")) <= 1

\* C9: while a request to /api/analyze is in flight the loading overlay is
\* visible.
C9_OverlayWhilePending == Pending("/api/analyze") # {} => overlay

\* an analysis call failed: its fetch rejected or the status was not a success
AnalysisFailed(resp) == resp.fetch = "rejected" \/ ~resp.ok

\* the body of a failed response parsed and has a message
BodyMessage(resp) ==
    IF resp.fetch = "resolved" /\ resp.parsed /\ Truthy(Get(resp.json, "message"))
    THEN <<Get(resp.json, "message").s>> ELSE <<>>

UploadSucceeds(resp) ==
    resp.fetch = "resolved" /\ resp.parsed /\ Truthy(Get(resp.json, "success"))

\* the id the claim gives a descriptor: the server's attachment_id when the
\* body has a (truthy) one, the timestamp otherwise
ClaimedId(resp, t) ==
    IF Truthy(Get(resp.json, "attachment_id"))
    THEN Get(resp.json, "attachment_id") ELSE Num(t)

\* the step issued no request but that of the next file of the batch
NextOfBatch(rest) ==
    IF rest = <<>> THEN Len(reqs') = Len(reqs)
    ELSE /\ Len(reqs') = Len(reqs) + 1
         /\ reqs'[Len(reqs')].pending
         /\ reqs'[Len(reqs')].url = "/api/upload_attachment"
         /\ reqs'[Len(reqs')].file = Head(rest)
         /\ reqs'[Len(reqs')].rest = Tail(rest)

\* C11: for every uploadFile call that resumes with a response: when the JSON
\* body was read and its success flag is truthy, uploadedFiles grows at its end
\* by exactly the descriptor (file name, file size, the body's content_type,
\* the body's attachment_id or else the timestamp) and one success
\* notification is shown; in every other case (fetch rejected, body not
\* parsed, body null, flag falsy) uploadedFiles is unchanged and exactly one
\* error notification naming the file is shown; in both cases processFiles
\* sends the next file of the batch, if there is one, and nothing else.
C11_UploadOutcomes ==
    [][last'.op = "uploadFile" =>
        \A t \in {now'}, i \in {last'.rid}, resp \in UploadResponses :
          UploadResolve(t, i, resp) =>
             /\ IF UploadSucceeds(resp)
                THEN /\ uploadedFiles' =
                           Append(uploadedFiles,
                                  [name |-> reqs[i].file.name,
                                   size |-> reqs[i].file.size,
                                   type |-> Get(resp.json, "content_type"),
                                   id |-> ClaimedId(resp, t)])
                     /\ Len(last'.notes) = 1
                     /\ last'.notes[1].type = "success"
                ELSE /\ uploadedFiles' = uploadedFiles
                     /\ OneError(last'.notes)
                     /\ last'.notes[1].text[2] = reqs[i].file.name
             /\ NextOfBatch(reqs[i].rest)]_vars

\* the second file of a batch was appended, its id taken from the clock, to a
\* list that was empty
C11_Witness ==
    /\ last.op = "uploadFile"
    /\ last.outcome = "appended"
    /\ last.rid = 3
    /\ last.before = <<>>
    /\ uploadedFiles = <<[name |-> <<"b">>, size |-> 0, type |-> Str(<<"t">>),
                          id |-> Num(now)]>>

\* the status response is not a parsed success response saying 'running'
StatusError(resp) ==
    ~(/\ resp.fetch = "resolved" /\ resp.ok /\ resp.parsed
      /\ Get(resp.json, "status") = Str(Running))

\* the analysis response is a failure, or a success whose body does not parse
\* or does not render
AnalysisError(resp) ==
    \/ ~(resp.fetch = "resolved" /\ resp.ok /\ resp.parsed)
    \/ buildResultsHTML(resp.json).threw

\* the PDF response is a failure or its blob cannot be read
PdfError(resp) == ~(resp.fetch = "resolved" /\ resp.ok /\ resp.parsed)

\* the last step ended in an error
EndedInError ==
    \/ \E n \in Range(last.notes) : n.type = "error"
    \/ last.op = "checkAppStatus" /\ last.outcome = "offline"

\* every handler of the controller can run (a handler that sends a request,
\* as long as the run may still send one)
Usable ==
    /\ ENABLED handleFormSubmit(EmptyForm)
    /\ ENABLED startNewAnalysis(now, <<"a">>)
    /\ \A i \in DOMAIN fileButtons : ENABLED RemoveClick(i)
    /\ ~hasAnalysis(currentAnalysis) => ENABLED downloadPDF
    /\ Committed < MaxReq =>
          /\ ENABLED handleFormSubmit(ValidForm)
          /\ ENABLED downloadPDF
          /\ \A f \in Files : /\ ENABLED handleFileSelect(<<f>>)
                              /\ ENABLED handleFileDrop(<<f>>)

\* the step that handled an error sent no request
NoRequestSent == Len(reqs') = Len(reqs)

C13_StatusCheckOneShot ==
    /\ Pending("/api/app_status") = {1}
    /\ [](statusIndicator = "loading" <=> Pending("/api/app_status") = {1})
    /\ [][/\ \A i \in Issued(reqs, reqs') : reqs'[i].url # "/api/app_status"
          /\ (last'.op = "checkAppStatus") =>
                /\ statusIndicator' \in {"online", "offline"}
                /\ Pending("/api/app_status")' = {}
                /\ sessionId' = sessionId
                /\ uploadedFiles' = uploadedFiles
                /\ currentAnalysis' = currentAnalysis
                /\ \A resp \in StatusResponses :
                      StatusResolve(last'.rid, resp) =>
                         (statusIndicator' = "online" <=> ~StatusError(resp))
          /\ (last'.op # "checkAppStatus") =>
                statusIndicator' = statusIndicator]_vars

\* the status request resolved to 'offline' after an upload and an analysis
\* had completed, and left their results in place
C13_Witness ==
    /\ last.op = "checkAppStatus"
    /\ statusIndicator = "offline"
    /\ Pending("/api/app_status") = {}
    /\ uploadedFiles # <<>>
    /\ currentAnalysis # Null

\* the display moves from one step of the sequence to the next
NextStep(old, new) ==
    \E k \in 1..(Len(steps) - 1) : old = steps[k] /\ new = steps[k + 1]

\* C14: while the overlay is shown the progress display starts at the first
\* step (10) on a submission, moves by exactly one step of the sequence 10,
\* 25, 40, 60, 80, 95, 100 (with the step's caption) on a timer tick, or stays
\* when the tick finds 100 shown, and is changed by nothing else, also when a
\* submission is made before the timers of an earlier one have ended.
C14_ProgressInOrder ==
    [][(overlay /\ overlay') =>
          /\ (last'.op = "handleFormSubmit" /\ last'.outcome = "sent") =>
                progress' = steps[1]
          /\ (last'.op = "updateProgress") =>
                \/ NextStep(progress, progress')
                \/ progress = steps[Len(steps)] /\ progress' = progress
          /\ (last'.op \notin {"handleFormSubmit", "updateProgress"}) =>
                progress' = progress]_vars

\* the insights list of a parsed success response, <<list>>, or <<>>
InsightsOf(resp) ==
    LET v == Get(resp.json, "insights_exclusivos")
    IN IF assignsAnalysis(resp) /\ v.t = "array" THEN <<v.a>> ELSE <<>>

\* the insights sections of the rendered results
InsightSections ==
    SelectSeq(resultsContent, LAMBDA sec : sec.section = "insights")

\* C15: when a result payload with an insights list of length n has been
\* rendered, the results hold one insights section with exactly n cards, the
\* card at position i (from 1) showing the list's i-th element and carrying
\* the number i, that is index + 1 for the 0-based index: the numbers are
\* 1..n in order.
C15_InsightCardsNumbered ==
    (last.op = "performAnalysis" /\ InsightsOf(last.resp) # <<>>) =>
        LET l == InsightsOf(last.resp)[1]
        IN /\ Len(InsightSections) = 1
           /\ Len(InsightSections[1].cards) = Len(l)
           /\ \A i \in 1..Len(l) :
                 /\ InsightSections[1].cards[i].number = i
                 /\ InsightSections[1].cards[i].content = l[i]

\* a list of three insights was rendered after another section
C15_Witness ==
    /\ last.op = "performAnalysis"
    /\ InsightsOf(last.resp) = <<<<Str(<<"C">>), Str(<<"A">>), Str(<<"B">>)>>>>
    /\ Len(resultsContent) = 2
    /\ [n \in 1..3 |-> InsightSections[1].cards[n].number] = <<1, 2, 3>>
    /\ resultsShown

\* a is b with some entries left out, the others in b's order
RECURSIVE IsSubSeq(_, _)
IsSubSeq(a, b) ==
    IF a = <<>> THEN TRUE
    ELSE IF b = <<>> THEN FALSE
    ELSE IF Head(a) = Head(b) THEN IsSubSeq(Tail(a), Tail(b))
    ELSE IsSubSeq(a, Tail(b))

\* the handlers the claim says leave the upload list alone
FrameOps == {"handleFormSubmit", "performAnalysis", "downloadPDF",
             "downloadPDFResume", "checkAppStatus"}

\* C16: a step changes uploadedFiles only as (a) an upload whose response has
\* a truthy success flag, which adds one entry at the end and keeps the
\* others, (b) removeFile, which leaves some entries out and keeps the others
\* in their order, or (c) startNewAnalysis, which empties it; form submission,
\* the end of an analysis call, PDF download, the status check and an upload
\* that fails leave it unchanged.
C16_UploadListFrame ==
    [][/\ uploadedFiles' # uploadedFiles =>
             \/ /\ last'.op = "uploadFile"
                /\ Len(uploadedFiles') = Len(uploadedFiles) + 1
                /\ SubSeq(uploadedFiles', 1, Len(uploadedFiles)) = uploadedFiles
                /\ \A resp \in UploadResponses :
                      UploadResolve(now', last'.rid, resp) => UploadSucceeds(resp)
             \/ /\ last'.op = "removeFile"
                /\ IsSubSeq(uploadedFiles', uploadedFiles)
             \/ /\ last'.op = "startNewAnalysis"
                /\ uploadedFiles' = <<>>
       /\ last'.op \in FrameOps => uploadedFiles' = uploadedFiles
       /\ last'.op = "uploadFile" =>
             \A resp \in UploadResponses :
                (UploadResolve(now', last'.rid, resp) /\ ~UploadSucceeds(resp)) =>
                   uploadedFiles' = uploadedFiles]_vars

\* of two uploaded files the first was removed and the second is kept
C16_Witness ==
    /\ last.op = "removeFile"
    /\ Len(last.before) = 2
    /\ uploadedFiles = <<last.before[2]>>

\* C17: a response to an /api/analyze request that was sent under a session
\* id other than the current one (the request was in flight when
\* startNewAnalysis replaced the id) leaves currentAnalysis and the visibility
\* of the results as startNewAnalysis left them; currentAnalysis becomes
\* non-empty, and the results visible, only by a response to a request sent
\* under the current session id.
C17_StaleResponseIgnored ==
    [][/\ (last'.op = "performAnalysis"
           /\ reqs[last'.rid].sentUnder # sessionId) =>
             /\ currentAnalysis' = currentAnalysis
             /\ resultsShown' = resultsShown
       /\ (currentAnalysis = Null /\ currentAnalysis' # Null) =>
             /\ last'.op = "performAnalysis"
             /\ reqs[last'.rid].sentUnder = sessionId
       /\ (~resultsShown /\ resultsShown') =>
             /\ last'.op = "performAnalysis"
             /\ reqs[last'.rid].sentUnder = sessionId]_vars

\* C18: an upload appends its descriptor to uploadedFiles only when its
\* request was sent under the session id the controller has at that moment
\* (startNewAnalysis empties the list whenever it replaces the id, so every
\* descriptor of the list is then of the current session).
C18_UploadsOfCurrentSession ==
    [][(last'.op = "uploadFile" /\ Len(uploadedFiles') > Len(uploadedFiles)) =>
          reqs[last'.rid].sentUnder = sessionId]_vars

\* the stored analysis rendered without error
Rendered(ca) == ~buildResultsHTML(ca).threw

\* C19: when a response that succeeds and renders is processed for a request
\* made before the request whose (rendered) result is the current analysis,
\* the two submissions having overlapped and the later one's response having
\* arrived first, currentAnalysis and the rendered results stay those of the
\* later submission.
C19_LastSubmissionWins ==
    [][(/\ last'.op = "performAnalysis"
        /\ ~AnalysisError(last'.resp)
        /\ last'.rid < analysisFrom
        /\ Rendered(currentAnalysis)) =>
          /\ currentAnalysis' = currentAnalysis
          /\ resultsContent' = resultsContent]_vars

\* C20: a performAnalysis call that ends by showing its error notification
\* has not changed currentAnalysis.
C20_ErrorMeansNotStored ==
    [][(last'.op = "performAnalysis"
        /\ \E n \in Range(last'.notes) : n.type = "error") =>
          currentAnalysis' = currentAnalysis]_vars

====
